---- MODULE Spec2Model ----
(***************************************************************************)
(* pyscheme: the scoped Environment (definitions, value cache, update      *)
(* listeners) and the tree-walking evaluator of src/pyscheme/core.py,      *)
(* driven by a host that creates Environments and calls their methods.     *)
(***************************************************************************)
EXTENDS Integers, Sequences, FiniteSets, TLC

(***************************************************************************)
(* Bounds of the model.                                                    *)
(***************************************************************************)
\* Environments the host creates on top of make_root_environment()
MaxEnvs == 1
\* nesting depth of evaluate/__getitem__ frames before RecursionError
MaxDepth == 14
\* calls the host makes in one run
MaxSteps == 4
\* the length up to which every string over Alphabet is parsed
MaxLen == 3

(***************************************************************************)
(* Expressions (pyscheme/typing.py) and values.  Each variant is a record  *)
(* with its own field name.                                                *)
(***************************************************************************)
Num(n) == [num |-> n]
Symbol(s) == [sym |-> s]
List(l) == [list |-> l]
Builtin(b) == [builtin |-> b]
Procedure(parms, exp, env) == [parms |-> parms, exp |-> exp, env |-> env]
NoneValue == [none |-> TRUE]

IsNum(x) == DOMAIN x = {"num"}
IsSymbol(x) == DOMAIN x = {"sym"}
IsList(x) == DOMAIN x = {"list"}
IsBuiltin(x) == DOMAIN x = {"builtin"}
IsProcedure(x) == DOMAIN x = {"parms", "exp", "env"}
IsNone(x) == DOMAIN x = {"none"}

\* is_symbol(x, s): x is a Symbol and equals s
is_symbol(x, s) == IsSymbol(x) /\ x.sym = s

\* the parent of an Environment created without one
None == 0

EmptyMap == [k \in {} |-> NoneValue]

\* dict[k] = v
Put(m, k, v) == (k :> v) @@ m

(***************************************************************************)
(* Outcome of a call: a returned value or a raised exception, with the     *)
(* store as the call left it.                                              *)
(***************************************************************************)
Return(v, st) == [ok |-> TRUE, val |-> v, st |-> st]
Raise(e, st) == [ok |-> FALSE, val |-> e, st |-> st]
KeyError(s) == [error |-> "KeyError", key |-> s]
RecursionError == [error |-> "RecursionError", key |-> ""]
TypeError == [error |-> "TypeError", key |-> ""]
ValueError == [error |-> "ValueError", key |-> ""]
IndexError == [error |-> "IndexError", key |-> ""]
ZeroDivisionError == [error |-> "ZeroDivisionError", key |-> ""]

Str(s) == [str |-> s]
IsStr(x) == DOMAIN x = {"str"}
Bool(b) == [bool |-> b]
IsBool(x) == DOMAIN x = {"bool"}

(***************************************************************************)
(* Program state: the Environment objects on the heap, by identity.        *)
(*   parent[e]            Environment.parent (None for a root)             *)
(*   definition_map[e]    Environment._definition_map                      *)
(*   value_map[e]         Environment._value_map                           *)
(*   update_listeners[e]  Environment._update_listeners: the Environments  *)
(*                        whose bound _handle_update is still in the       *)
(*                        WeakSet                                          *)
(* and around it                                                           *)
(*   held       the Environments the host holds a reference to             *)
(*   collector  how the runtime reclaims unreferenced objects              *)
(*   last       the host's last call                                       *)
(*   result     what that call returned or raised                          *)
(*   calls      builtin invocations made during that call                  *)
(*   steps      calls the host has made                                    *)
(*   dropped    the cache entries the most recent define cleared           *)
(*   text       the string the host hands to a parser, character by        *)
(*              character                                                  *)
(*   tree       what the parser returned or raised for it, and which       *)
(*              front end was asked                                        *)
(*   pending    the lookup of a second thread that has computed its value  *)
(*              and not yet stored it                                      *)
(*   serialized whether the threads call the Environment under one lock    *)
(***************************************************************************)
VARIABLES parent, definition_map, value_map, update_listeners,
          held, collector, last, result, calls, steps, dropped, text, tree,
          pending, serialized

vars == <<parent, definition_map, value_map, update_listeners,
          held, collector, last, result, calls, steps, dropped, text, tree,
          pending, serialized>>

\* the heap as one value, threaded through the methods below
Store ==
    [parent |-> parent, definition_map |-> definition_map,
     value_map |-> value_map, update_listeners |-> update_listeners,
     calls |-> 0]

Envs(st) == DOMAIN st.parent

\* Environment.add_update_listener: WeakSet.add of the bound method
\* child._handle_update.  Nothing else references that bound method, so
\* under reference counting it is reclaimed, and leaves the WeakSet, as soon
\* as the call returns; under a tracing collector it stays until collected.
add_update_listener(st, e, child) ==
    IF collector = "tracing"
    THEN [st EXCEPT !.update_listeners[e] = @ \cup {child}]
    ELSE st

\* Environment.__init__: a new object, registered with its parent
Environment(st, p, values, definitions) ==
    LET id == CHOOSE i \in 1..(Cardinality(Envs(st)) + 1) :
                  /\ i \notin Envs(st)
                  /\ \A j \in 1..(i - 1) : j \in Envs(st)
        st1 == [st EXCEPT !.parent = (id :> p) @@ @,
                          !.definition_map = (id :> definitions) @@ @,
                          !.value_map = (id :> values) @@ @,
                          !.update_listeners = (id :> {}) @@ @]
    IN  [id |-> id,
         st |-> IF p # None THEN add_update_listener(st1, p, id) ELSE st1]

RECURSIVE handle_update(_, _)
RECURSIVE NotifyEach(_, _)

\* the loop of _notify_listeners over the listeners not yet called
NotifyEach(st, ls) ==
    IF ls = {} THEN st
    ELSE LET l == CHOOSE x \in ls : TRUE
         IN  NotifyEach(handle_update(st, l), ls \ {l})

\* Environment._notify_listeners
notify_listeners(st, e) == NotifyEach(st, st.update_listeners[e])

\* _handle_update that notifies without clearing its own cache
handle_update_keep(st, e) == notify_listeners(st, e)

\* Environment._handle_update: clear the whole cache, then notify
handle_update(st, e) ==
    notify_listeners([st EXCEPT !.value_map[e] = EmptyMap], e)

\* Environment.add
\* an add that writes the definitions
add_definition(st, e, s, expr) == [st EXCEPT !.definition_map[e] = Put(@, s, expr)]

add(st, e, s, expr) == [st EXCEPT !.value_map[e] = Put(@, s, expr)]

\* Environment.update: dict.update with the pairs in order
RECURSIVE update(_, _, _)
update(st, e, values) ==
    IF values = <<>> THEN st
    ELSE update(add(st, e, Head(values)[1], Head(values)[2]), e, Tail(values))

\* a define that leaves the value cache alone
define_quiet(st, e, s, expr) == [st EXCEPT !.definition_map[e] = Put(@, s, expr)]

\* Environment.define
define(st, e, s, expr) ==
    handle_update([st EXCEPT !.definition_map[e] = Put(@, s, expr)], e)

\* Environment.__contains__
RECURSIVE contains(_, _, _)
contains(st, e, s) ==
    \/ s \in DOMAIN st.value_map[e]
    \/ s \in DOMAIN st.definition_map[e]
    \/ (st.parent[e] # None /\ contains(st, st.parent[e], s))

\* __setitem__ that does not pass the assignment on to the parent
setitem_local(st, e, s, expr) ==
    IF s \in DOMAIN st.value_map[e] /\ s \notin DOMAIN st.definition_map[e]
    THEN Return(NoneValue, [st EXCEPT !.value_map[e] = Put(@, s, expr)])
    ELSE Raise(KeyError(s), st)

\* __setitem__ that sets a cached value also where the name is defined
RECURSIVE setitem_defined(_, _, _, _)
setitem_defined(st, e, s, expr) ==
    IF s \in DOMAIN st.value_map[e]
    THEN Return(NoneValue, [st EXCEPT !.value_map[e] = Put(@, s, expr)])
    ELSE IF st.parent[e] # None
    THEN setitem_defined(st, st.parent[e], s, expr)
    ELSE Raise(KeyError(s), st)

\* an assign that, finding no Environment to write to, leaves the value in
\* the root before it fails
RECURSIVE setitem_eager(_, _, _, _)
setitem_eager(st, e, s, expr) ==
    IF s \in DOMAIN st.value_map[e] /\ s \notin DOMAIN st.definition_map[e]
    THEN Return(NoneValue, [st EXCEPT !.value_map[e] = Put(@, s, expr)])
    ELSE IF st.parent[e] # None
    THEN setitem_eager(st, st.parent[e], s, expr)
    ELSE Raise(KeyError(s), [st EXCEPT !.value_map[e] = Put(@, s, expr)])

\* Environment.__setitem__
RECURSIVE setitem(_, _, _, _)
setitem(st, e, s, expr) ==
    IF s \in DOMAIN st.value_map[e] /\ s \notin DOMAIN st.definition_map[e]
    THEN Return(NoneValue, [st EXCEPT !.value_map[e] = Put(@, s, expr)])
    ELSE IF st.parent[e] # None
    THEN setitem(st, st.parent[e], s, expr)
    ELSE Raise(KeyError(s), st)

(***************************************************************************)
(* The evaluator.  d is the number of frames left before RecursionError.   *)
(***************************************************************************)
RECURSIVE evaluate(_, _, _, _)
RECURSIVE getitem(_, _, _, _)
RECURSIVE EvaluateArgs(_, _, _, _)
RECURSIVE Application(_, _, _, _)
RECURSIVE Conditional(_, _, _, _)

\* an Environment.evaluate that evaluates in the Environment itself
Environment_evaluate_inplace(st, e, expr, d) == evaluate(st, expr, e, d)

\* Environment.evaluate: evaluate in a child Environment
Environment_evaluate(st, e, expr, d) ==
    LET child == Environment(st, e, EmptyMap, EmptyMap)
    IN  evaluate(child.st, expr, child.id, d)

\* __getitem__ that asks the definitions before the cache
getitem_definition_first(st, e, s, d) ==
    IF d = 0 THEN Raise(RecursionError, st)
    ELSE LET r == IF s \in DOMAIN st.definition_map[e]
                  THEN Environment_evaluate(st, e, st.definition_map[e][s], d - 1)
                  ELSE IF s \in DOMAIN st.value_map[e]
                  THEN Return(st.value_map[e][s], st)
                  ELSE IF st.parent[e] # None
                  THEN getitem(st, st.parent[e], s, d - 1)
                  ELSE Raise(KeyError(s), st)
         IN  IF r.ok
             THEN Return(r.val, [r.st EXCEPT !.value_map[e] = Put(@, s, r.val)])
             ELSE r

\* __getitem__ that returns the value without storing it in the cache
getitem_uncached(st, e, s, d) ==
    IF d = 0 THEN Raise(RecursionError, st)
    ELSE IF s \in DOMAIN st.value_map[e]
    THEN Return(st.value_map[e][s], st)
    ELSE IF s \in DOMAIN st.definition_map[e]
    THEN Environment_evaluate(st, e, st.definition_map[e][s], d - 1)
    ELSE IF st.parent[e] # None
    THEN getitem(st, st.parent[e], s, d - 1)
    ELSE Raise(KeyError(s), st)

\* __getitem__ that answers None when the frames run out
getitem_default(st, e, s, d) ==
    IF d = 0 THEN Return(NoneValue, st)
    ELSE IF s \in DOMAIN st.value_map[e]
    THEN Return(st.value_map[e][s], st)
    ELSE LET r == IF s \in DOMAIN st.definition_map[e]
                  THEN Environment_evaluate(st, e, st.definition_map[e][s], d - 1)
                  ELSE IF st.parent[e] # None
                  THEN getitem(st, st.parent[e], s, d - 1)
                  ELSE Raise(KeyError(s), st)
         IN  IF r.ok
             THEN Return(r.val, [r.st EXCEPT !.value_map[e] = Put(@, s, r.val)])
             ELSE r

\* Environment.__getitem__
getitem(st, e, s, d) ==
    IF d = 0 THEN Raise(RecursionError, st)
    ELSE IF s \in DOMAIN st.value_map[e]
    THEN Return(st.value_map[e][s], st)
    ELSE LET r == IF s \in DOMAIN st.definition_map[e]
                  THEN Environment_evaluate(st, e, st.definition_map[e][s], d - 1)
                  ELSE IF st.parent[e] # None
                  THEN getitem(st, st.parent[e], s, d - 1)
                  ELSE Raise(KeyError(s), st)
         IN  IF r.ok
             THEN Return(r.val, [r.st EXCEPT !.value_map[e] = Put(@, s, r.val)])
             ELSE r

\* bool(v), as the if form tests it
Truthy(v) ==
    IF IsNum(v) THEN v.num # 0
    ELSE IF IsList(v) THEN v.list # <<>>
    ELSE IF IsStr(v) THEN v.str # ""
    ELSE IF IsSymbol(v) THEN v.sym # ""
    ELSE IF IsBool(v) THEN v.bool
    ELSE ~IsNone(v)

\* the float i / j: equal to the int when the division is exact
Float(i, j) ==
    IF (i \div j) * j = i THEN Num(i \div j) ELSE [float |-> <<i, j>>]

\* the builtins of the root environment the model carries: operator.add,
\* operator.sub, operator.mul and operator.truediv applied to the evaluated
\* arguments
ApplyBuiltin(b, args) ==
    IF Len(args) # 2 THEN [ok |-> FALSE, val |-> TypeError]
    ELSE LET x == args[1]
             y == args[2]
         IN  IF (IsNum(x) \/ IsBool(x)) /\ (IsNum(y) \/ IsBool(y))
             THEN LET i == IF IsNum(x) THEN x.num ELSE IF x.bool THEN 1 ELSE 0
                      j == IF IsNum(y) THEN y.num ELSE IF y.bool THEN 1 ELSE 0
                  IN  IF b = "truediv" /\ j = 0
                      THEN [ok |-> FALSE, val |-> ZeroDivisionError]
                      ELSE [ok |-> TRUE,
                            val |-> IF b = "add" THEN Num(i + j)
                                    ELSE IF b = "mul" THEN Num(i * j)
                                    ELSE IF b = "truediv" THEN Float(i, j)
                                    ELSE Num(i - j)]
             ELSE IF b = "add" /\ IsList(x) /\ IsList(y)
             THEN [ok |-> TRUE, val |-> List(x.list \o y.list)]
             ELSE IF b = "add" /\ (IsStr(x) \/ IsSymbol(x)) /\ (IsStr(y) \/ IsSymbol(y))
             THEN [ok |-> TRUE,
                   val |-> Str((IF IsStr(x) THEN x.str ELSE x.sym)
                               \o (IF IsStr(y) THEN y.str ELSE y.sym))]
             ELSE [ok |-> FALSE, val |-> TypeError]

\* zip(self.parms, args) as the values of the call's Environment
RECURSIVE Zip(_, _)
Zip(parms, args) ==
    IF parms = <<>> \/ args = <<>> THEN EmptyMap
    ELSE Put(Zip(Tail(parms), Tail(args)), Head(parms).sym, Head(args))

\* Procedure.__call__
Procedure_call(st, proc, args, d) ==
    LET scope == Environment(st, proc.env,
                             Zip(IF IsList(proc.parms) THEN proc.parms.list ELSE <<>>, args),
                             EmptyMap)
    IN  evaluate(scope.st, proc.exp, scope.id, d)

\* proc(*args) of the procedure-call branch
Apply(st, proc, args, d) ==
    IF IsBuiltin(proc)
    THEN LET r == ApplyBuiltin(proc.builtin, args)
             st1 == [st EXCEPT !.calls = @ + 1]
         IN  IF r.ok THEN Return(r.val, st1) ELSE Raise(r.val, st1)
    ELSE IF IsProcedure(proc)
    THEN Procedure_call(st, proc, args, d)
    ELSE Raise(TypeError, st)

\* [evaluate(arg, env) for arg in x[1:]], left to right
EvaluateArgs(st, xs, env, d) ==
    IF xs = <<>> THEN Return(<<>>, st)
    ELSE LET r == evaluate(st, Head(xs), env, d)
         IN  IF ~r.ok THEN r
             ELSE LET rest == EvaluateArgs(r.st, Tail(xs), env, d)
                  IN  IF ~rest.ok THEN rest
                      ELSE Return(<<r.val>> \o rest.val, rest.st)

\* a procedure call that runs the body in a child of the caller's Environment
Application_dynamic(st, x, env, d) ==
    LET proc == evaluate(st, x.list[1], env, d - 1)
    IN  IF ~proc.ok THEN proc
        ELSE LET args == EvaluateArgs(proc.st, Tail(x.list), env, d - 1)
             IN  IF ~args.ok THEN args
                 ELSE IF IsProcedure(proc.val)
                 THEN Procedure_call(args.st, [proc.val EXCEPT !.env = env],
                                     args.val, d - 1)
                 ELSE Apply(args.st, proc.val, args.val, d - 1)

\* the procedure-call branch of evaluate
Application(st, x, env, d) ==
    LET proc == evaluate(st, x.list[1], env, d - 1)
    IN  IF ~proc.ok THEN proc
        ELSE LET args == EvaluateArgs(proc.st, Tail(x.list), env, d - 1)
             IN  IF ~args.ok THEN args
                 ELSE Apply(args.st, proc.val, args.val, d - 1)

\* an if that evaluates both branches and then returns the chosen one
Conditional_both(st, x, env, d) ==
    IF Len(x.list) # 4 THEN Raise(ValueError, st)
    ELSE LET t == evaluate(st, x.list[2], env, d - 1)
         IN  IF ~t.ok THEN t
             ELSE LET c == evaluate(t.st, x.list[3], env, d - 1)
                  IN  IF ~c.ok THEN c
                      ELSE LET a == evaluate(c.st, x.list[4], env, d - 1)
                           IN  IF ~a.ok THEN a
                               ELSE Return(IF Truthy(t.val) THEN c.val ELSE a.val, a.st)

\* the if branch of evaluate
Conditional(st, x, env, d) ==
    IF Len(x.list) # 4 THEN Raise(ValueError, st)
    ELSE LET t == evaluate(st, x.list[2], env, d - 1)
         IN  IF ~t.ok THEN t
             ELSE evaluate(t.st,
                           IF Truthy(t.val) THEN x.list[3] ELSE x.list[4],
                           env, d - 1)

\* evaluate(x, env)
evaluate(st, x, env, d) ==
    IF d = 0 THEN Raise(RecursionError, st)
    ELSE IF IsSymbol(x) THEN getitem(st, env, x.sym, d - 1)
    ELSE IF ~IsList(x) THEN Return(x, st)
    ELSE IF x.list = <<>> THEN Raise(IndexError, st)
    ELSE IF is_symbol(x.list[1], "quote")
    THEN IF Len(x.list) # 2 THEN Raise(ValueError, st)
         ELSE Return(x.list[2], st)
    ELSE IF is_symbol(x.list[1], "if") THEN Conditional(st, x, env, d)
    ELSE IF is_symbol(x.list[1], "define")
    THEN IF Len(x.list) # 3 THEN Raise(ValueError, st)
         ELSE LET r == evaluate(st, x.list[3], env, d - 1)
              IN  IF ~r.ok THEN r
                  ELSE IF IsList(x.list[2]) THEN Raise(TypeError, r.st)
                  ELSE IF ~IsSymbol(x.list[2]) THEN Return(NoneValue, r.st)
                  ELSE Return(NoneValue, add(r.st, env, x.list[2].sym, r.val))
    ELSE IF is_symbol(x.list[1], "set!")
    THEN IF Len(x.list) # 3 THEN Raise(ValueError, st)
         ELSE LET r == evaluate(st, x.list[3], env, d - 1)
              IN  IF ~r.ok THEN r
                  ELSE IF IsList(x.list[2]) THEN Raise(TypeError, r.st)
                  ELSE IF ~IsSymbol(x.list[2]) THEN Raise(KeyError(""), r.st)
                  ELSE setitem(r.st, env, x.list[2].sym, r.val)
    ELSE IF is_symbol(x.list[1], "lambda")
    THEN IF Len(x.list) # 3 THEN Raise(ValueError, st)
         ELSE Return(Procedure(x.list[2], x.list[3], env), st)
    ELSE Application(st, x, env, d)

(***************************************************************************)
(* The host: it holds Environments and calls their methods.  When a call   *)
(* returns, the Environments nothing references any more are gone.         *)
(***************************************************************************)
\* the Environment a value keeps alive
EnvRefs(v) == IF IsProcedure(v) THEN {v.env} ELSE {}

RECURSIVE Reachable(_, _)
Reachable(st, roots) ==
    LET more == roots
                \cup ({st.parent[e] : e \in roots} \ {None})
                \cup UNION {UNION {EnvRefs(st.value_map[e][k]) :
                                   k \in DOMAIN st.value_map[e]} : e \in roots}
    IN  IF more = roots THEN roots ELSE Reachable(st, more)

\* no lookup is between computing its value and storing it
NoLookup == [env |-> None, s |-> "", value |-> NoneValue]

\* the call is over: r is its outcome, call its record, keep what the host keeps
Finish(r, call, keep) ==
    /\ steps < MaxSteps
    /\ steps' = steps + 1
    /\ LET live == Reachable(r.st, keep \cup (IF r.ok THEN EnvRefs(r.val) ELSE {}))
       IN  /\ parent' = [e \in live |-> r.st.parent[e]]
           /\ definition_map' = [e \in live |-> r.st.definition_map[e]]
           /\ value_map' = [e \in live |-> r.st.value_map[e]]
           /\ update_listeners' = [e \in live |-> r.st.update_listeners[e] \cap live]
    /\ held' = keep
    /\ last' = call
    /\ result' = [ok |-> r.ok, val |-> r.val]
    /\ calls' = r.st.calls
    /\ dropped' = IF call.op = "define"
                  THEN [e \in {n \in DOMAIN value_map : r.st.value_map[n] # value_map[n]}
                          |-> value_map[e]]
                  ELSE dropped
    /\ pending' = IF call.op = "lookup" THEN NoLookup ELSE pending
    /\ UNCHANGED <<collector, text, tree, serialized>>

Call(op, e, s, x) == [op |-> op, env |-> e, s |-> s, x |-> x]

\* the standard procedures of the root environment the model carries
builtins ==
    << <<"+", Builtin("add")>>, <<"-", Builtin("sub")>>,
       <<"*", Builtin("mul")>>, <<"/", Builtin("truediv")>> >>

\* a root environment that holds the builtins itself, without the wrapper
make_root_environment_flat(st) ==
    LET env == Environment(st, None, EmptyMap, EmptyMap)
    IN  [id |-> env.id, st |-> update(env.st, env.id, builtins)]

\* make_root_environment(): the builtins in a root, wrapped in a child
make_root_environment(st) ==
    LET env == Environment(st, None, EmptyMap, EmptyMap)
        st1 == update(env.st, env.id, builtins)
    IN  Environment(st1, env.id, EmptyMap, EmptyMap)

EmptyStore ==
    [parent |-> <<>>, definition_map |-> <<>>, value_map |-> <<>>,
     update_listeners |-> <<>>, calls |-> 0]

\* no string has been parsed
NoTree == [via |-> "", front |-> "", ok |-> FALSE, val |-> NoneValue]

\* the host has made the root environment
InitEnvironment ==
    /\ collector \in {"refcount", "tracing"}
    /\ LET root == make_root_environment(EmptyStore)
       IN  /\ parent = root.st.parent
           /\ definition_map = root.st.definition_map
           /\ value_map = root.st.value_map
           /\ update_listeners = root.st.update_listeners
           /\ held = {root.id}
    /\ last = Call("make_root_environment", None, "", NoneValue)
    /\ result = [ok |-> TRUE, val |-> NoneValue]
    /\ calls = 0
    /\ steps = 0
    /\ dropped = <<>>
    /\ pending = NoLookup

Init ==
    /\ InitEnvironment
    /\ text = <<>>
    /\ tree = NoTree
    /\ serialized = FALSE

\* child = Environment(parent=p, values=..., definitions=...)
CreateEnvironment(p, values, definitions) ==
    /\ Cardinality(held) <= MaxEnvs
    /\ LET child == Environment(Store, p, values, definitions)
       IN  Finish(Return(NoneValue, child.st),
                  Call("Environment", child.id, "", NoneValue),
                  held \cup {child.id})

\* e.define(s, x)
Define(e, s, x) ==
    Finish(Return(NoneValue, define(Store, e, s, x)), Call("define", e, s, x), held)

\* e.add(s, v)
Add(e, s, v) ==
    Finish(Return(NoneValue, add(Store, e, s, v)), Call("add", e, s, v), held)

\* e.update([(s, v)])
Update(e, s, v) ==
    Finish(Return(NoneValue, update(Store, e, << <<s, v>> >>)),
           Call("update", e, s, v), held)

\* e[s] = v
Assign(e, s, v) ==
    Finish(setitem(Store, e, s, v), Call("assign", e, s, v), held)

\* e[s]
Lookup(e, s) ==
    Finish(getitem(Store, e, s, MaxDepth), Call("lookup", e, s, NoneValue), held)

\* s in e
Contains(e, s) ==
    Finish(Return(Bool(contains(Store, e, s)), Store),
           Call("contains", e, s, NoneValue), held)

\* e.evaluate(x)
Evaluate(e, x) ==
    Finish(Environment_evaluate(Store, e, x, MaxDepth), Call("evaluate", e, "", x), held)

\* a collection run of a tracing collector: the bound methods in the WeakSets
\* are referenced from nowhere else and go
CollectGarbage ==
    /\ collector = "tracing"
    /\ \E e \in DOMAIN update_listeners : update_listeners[e] # {}
    /\ update_listeners' = [e \in DOMAIN update_listeners |-> {}]
    /\ UNCHANGED <<parent, definition_map, value_map, held, collector,
                   last, result, calls, steps, dropped, text, tree,
                   pending, serialized>>

(***************************************************************************)
(* What the host passes in.                                                *)
(***************************************************************************)
Names == {"a", "b"}
Plus(x, y) == List(<<Symbol("+"), x, y>>)
SetBang(s, x) == List(<<Symbol("set!"), Symbol(s), x>>)
Lambda(parms, body) == List(<<Symbol("lambda"), List(parms), body>>)

\* a in terms of b
APlus == Plus(Symbol("b"), Num(1))

\* what a constructor call is given: its values and its definitions
Content(values, definitions) == [values |-> values, definitions |-> definitions]
Empty == Content(EmptyMap, EmptyMap)

(***************************************************************************)
(* Spec: definitions, parameter values and evaluation.                     *)
(***************************************************************************)
Contents == {Empty, Content("b" :> Num(1), "a" :> APlus)}
Expressions == {Symbol("a"), Plus(Symbol("a"), Num(1))}

Next ==
    \/ \E p \in held, c \in Contents : CreateEnvironment(p, c.values, c.definitions)
    \/ \E e \in held : Define(e, "a", APlus)
    \/ \E e \in held : Add(e, "b", Num(1))
    \/ \E e \in held : Update(e, "b", Num(2))
    \/ \E e \in held, s \in Names : Lookup(e, s)
    \/ \E e \in held, x \in Expressions : Evaluate(e, x)
    \/ CollectGarbage

Spec == Init /\ [][Next]_vars

(***************************************************************************)
(* SpecDefine: Environment creations, lookups, defines and evaluations.    *)
(***************************************************************************)
ContentsDefine == {Empty, Content(EmptyMap, ("a" :> APlus) @@ ("b" :> Num(1)))}
DefinitionsDefine == [a |-> {Num(1), APlus}, b |-> {Num(1), Num(2)}]

NextDefine ==
    \/ \E p \in held, c \in ContentsDefine :
          CreateEnvironment(p, c.values, c.definitions)
    \/ \E e \in held, s \in Names : \E x \in DefinitionsDefine[s] : Define(e, s, x)
    \/ \E e \in held, s \in Names : Lookup(e, s)
    \/ \E e \in held, x \in Expressions : Evaluate(e, x)
    \/ CollectGarbage

SpecDefine == Init /\ [][NextDefine]_vars

(***************************************************************************)
(* SpecAssign: values, definitions, assignment and set!.                   *)
(***************************************************************************)
ExpressionsAssign ==
    {Symbol("a"), SetBang("a", Num(2)), SetBang("a", Plus(Symbol("a"), Num(1)))}

ContentsAssign == {Empty, Content(EmptyMap, "a" :> Num(1))}

NextAssign ==
    \/ \E p \in held, c \in ContentsAssign :
          CreateEnvironment(p, c.values, c.definitions)
    \/ \E e \in held : Define(e, "a", Num(1))
    \/ \E e \in held : Add(e, "a", Num(1))
    \/ \E e \in held : Assign(e, "a", Num(2))
    \/ \E e \in held : Lookup(e, "a")
    \/ \E e \in held, x \in ExpressionsAssign : Evaluate(e, x)
    \/ CollectGarbage

SpecAssign == Init /\ [][NextAssign]_vars

(***************************************************************************)
(* SpecLambda: procedures.                                                 *)
(***************************************************************************)
ReadA == Lambda(<<>>, Symbol("a"))
ContentsLambda == {Empty, Content("a" :> Num(2), EmptyMap)}
ExpressionsLambda ==
    {List(<<Symbol("b")>>),
     List(<<Lambda(<<Symbol("a")>>, List(<<Symbol("b")>>)), Num(2)>>)}

NextLambda ==
    \/ \E p \in held, c \in ContentsLambda :
          CreateEnvironment(p, c.values, c.definitions)
    \/ \E e \in held : Define(e, "b", ReadA)
    \/ \E e \in held, v \in {Num(1), Num(2)} : Add(e, "a", v)
    \/ \E e \in held, x \in ExpressionsLambda : Evaluate(e, x)
    \/ CollectGarbage

SpecLambda == Init /\ [][NextLambda]_vars

(***************************************************************************)
(* SpecForms: the if form and procedure calls on the root environment.     *)
(***************************************************************************)
Minus(x, y) == List(<<Symbol("-"), x, y>>)
Quote(x) == List(<<Symbol("quote"), x>>)
IfForm(test, conseq, alt) == List(<<Symbol("if"), test, conseq, alt>>)
Call1(f, args) == List(<<f>> \o args)

\* tests whose value is false, 0 or the empty list, and tests whose value is
\* true or a number other than 0; two of them invoke a builtin
FalsyTests == {Bool(FALSE), Num(0), Quote(List(<<>>)), Minus(Num(1), Num(1))}
TruthyTests == {Bool(TRUE), Plus(Num(1), Num(1))}

\* one branch invokes a builtin, the other assigns
TwoPlus == Plus(Num(1), Num(1))
SetA == SetBang("a", Num(5))

IfForms ==
    {IfForm(t, TwoPlus, SetA) : t \in FalsyTests \cup TruthyTests}
    \cup {IfForm(t, SetA, TwoPlus) : t \in {Num(0), Bool(TRUE)}}
    \cup {IfForm(t, Num(1), Symbol("c")) : t \in {Num(0), Bool(TRUE)}}

\* calls of a lambda with more and with fewer arguments than parameters
SurplusCall == Call1(Lambda(<<Symbol("a")>>, Symbol("a")), <<Num(1), Num(2)>>)
ShortCall == Call1(Lambda(<<Symbol("a"), Symbol("b")>>, Symbol("a")), <<Num(1)>>)
ExactCall == Call1(Lambda(<<Symbol("a")>>, Symbol("a")), <<Num(2)>>)

NextForms ==
    \/ \E e \in held : Add(e, "a", Num(1))
    \/ \E e \in held, x \in IfForms : Evaluate(e, x)
    \/ \E e \in held, x \in {SurplusCall, ShortCall, ExactCall} : Evaluate(e, x)
    \/ CollectGarbage

SpecForms == Init /\ [][NextForms]_vars

(***************************************************************************)
(* The front ends.  A string is a sequence of one-character strings.       *)
(* The letters are chosen so that no word is a float literal.              *)
(***************************************************************************)
Letters == {"a", "b", "c"}
Digits == <<"0", "1", "2", "3", "4", "5", "6", "7", "8", "9">>
DigitSet == {Digits[i] : i \in 1..Len(Digits)}
Whitespace == {" ", "\n"}
Operators == {"+", "-", "*", "/", "^"}

\* a character the regular expression class \w matches
IsWordChar(c) == c \in Letters \cup DigitSet

SyntaxError(msg) == [error |-> "SyntaxError", key |-> msg]

\* int(token) for a token of digits
RECURSIVE IntValue(_)
IntValue(cs) ==
    IF cs = <<>> THEN 0
    ELSE IntValue(SubSeq(cs, 1, Len(cs) - 1)) * 10
         + ((CHOOSE i \in 1..Len(Digits) : Digits[i] = cs[Len(cs)]) - 1)

\* the characters as one string
RECURSIVE Join(_)
Join(cs) == IF cs = <<>> THEN "" ELSE Head(cs) \o Join(Tail(cs))

\* atom(token): int(token) accepts digits with an optional sign, every other
\* token is a Symbol
atom(token) ==
    LET signed == token # <<>> /\ token[1] \in {"+", "-"}
        digits == IF signed THEN Tail(token) ELSE token
    IN  IF digits # <<>> /\ \A i \in 1..Len(digits) : digits[i] \in DigitSet
        THEN Num(IF signed /\ token[1] = "-" THEN 0 - IntValue(digits)
                                              ELSE IntValue(digits))
        ELSE Symbol(Join(token))

\* what a parsing function gives back: a value and the position of the
\* current token, or a failure
Parsed(v, pos) == [ok |-> TRUE, val |-> v, pos |-> pos]
Failed(e) == [ok |-> FALSE, val |-> e, pos |-> 0]

(***************************************************************************)
(* parse_algebra                                                           *)
(***************************************************************************)
Token(type, value) == [type |-> type, value |-> value]

\* the first position from i on that holds no whitespace
RECURSIVE SkipWhitespace(_, _)
SkipWhitespace(s, i) ==
    IF i <= Len(s) /\ s[i] \in Whitespace THEN SkipWhitespace(s, i + 1) ELSE i

\* the last position of the run of word characters that starts at j
RECURSIVE WordEnd(_, _)
WordEnd(s, j) ==
    IF j < Len(s) /\ IsWordChar(s[j + 1]) THEN WordEnd(s, j + 1) ELSE j

\* tokenize: the matches of _TOKEN_RE from position i on.  The generator
\* raises when it reaches a character it rejects: the stream then ends
\* with an ERROR token in place of END.  Whitespace with nothing after
\* it matches only the last alternative, which takes any character but a
\* newline.
RECURSIVE algebra_tokenize_from(_, _)
algebra_tokenize_from(s, i) ==
    LET j == SkipWhitespace(s, i)
    IN  IF j > Len(s)
        THEN LET rejected == {m \in i..Len(s) : s[m] # "\n"}
             IN  IF rejected = {}
                 THEN <<Token("END", Str("end of input"))>>
                 ELSE <<Token("ERROR",
                              Str(s[CHOOSE m \in rejected : \A n \in rejected : n <= m]))>>
        ELSE IF s[j] \in Operators
        THEN <<Token("OP", Str(s[j]))>> \o algebra_tokenize_from(s, j + 1)
        ELSE IF IsWordChar(s[j])
        THEN <<Token("NUM", atom(SubSeq(s, j, WordEnd(s, j))))>>
             \o algebra_tokenize_from(s, WordEnd(s, j) + 1)
        ELSE IF s[j] = "("
        THEN <<Token("OPAREN", Str(s[j]))>> \o algebra_tokenize_from(s, j + 1)
        ELSE IF s[j] = ")"
        THEN <<Token("CPAREN", Str(s[j]))>> \o algebra_tokenize_from(s, j + 1)
        ELSE <<Token("ERROR", Str(s[j]))>>

algebra_tokenize(s) == algebra_tokenize_from(s, 1)

\* error(expected)
error(expected) == Failed(SyntaxError(expected))

\* the test of match(type, values); no values stands for values=None
Matches(token, type, values) ==
    token.type = type /\ (values = {} \/ token.value.str \in values)

\* token = next(tokens)
NextToken(tokens, pos) ==
    IF tokens[pos + 1].type = "ERROR"
    THEN Failed(SyntaxError("Unexpected character"))
    ELSE Parsed(NoneValue, pos + 1)

\* r, or what follows it when r did not fail
Then(r, Follow(_)) == IF r.ok THEN Follow(r) ELSE r

RECURSIVE term(_, _)
RECURSIVE exponentiation(_, _)
RECURSIVE multiplication(_, _)
RECURSIVE multiplication_loop(_, _, _, _)
RECURSIVE addition(_, _)
RECURSIVE addition_loop(_, _, _, _)

term(tokens, pos) ==
    IF Matches(tokens[pos], "NUM", {})
    THEN Then(NextToken(tokens, pos),
              LAMBDA n : Parsed(tokens[pos].value, n.pos))
    ELSE IF Matches(tokens[pos], "OPAREN", {})
    THEN Then(NextToken(tokens, pos),
              LAMBDA n :
                  Then(addition(tokens, n.pos),
                       LAMBDA tr :
                           IF Matches(tokens[tr.pos], "CPAREN", {})
                           THEN Then(NextToken(tokens, tr.pos),
                                     LAMBDA m : Parsed(tr.val, m.pos))
                           ELSE error("')'")))
    ELSE error("term")

\* an exponentiation that groups to the left
RECURSIVE exponentiation_left_loop(_, _, _)
exponentiation_left_loop(tokens, left, pos) ==
    IF Matches(tokens[pos], "OP", {"^"})
    THEN Then(NextToken(tokens, pos),
              LAMBDA n :
                  Then(term(tokens, n.pos),
                       LAMBDA right :
                           exponentiation_left_loop(
                               tokens,
                               List(<<Symbol("^"), left, right.val>>),
                               right.pos)))
    ELSE Parsed(left, pos)

exponentiation_left(tokens, pos) ==
    Then(term(tokens, pos),
         LAMBDA left : exponentiation_left_loop(tokens, left.val, left.pos))

exponentiation(tokens, pos) ==
    Then(term(tokens, pos),
         LAMBDA left :
             IF Matches(tokens[left.pos], "OP", {"^"})
             THEN Then(NextToken(tokens, left.pos),
                       LAMBDA n :
                           Then(exponentiation(tokens, n.pos),
                                LAMBDA right :
                                    Parsed(List(<<Symbol(tokens[left.pos].value.str),
                                                  left.val, right.val>>),
                                           right.pos)))
             ELSE left)

\* the while loop of multiplication: t was read once, before the loop, and
\* each round parses an exponentiation twice and keeps the second
multiplication_loop(tokens, left, t, pos) ==
    IF Matches(tokens[pos], "OP", {"*", "/"})
    THEN Then(NextToken(tokens, pos),
              LAMBDA n :
                  Then(exponentiation(tokens, n.pos),
                       LAMBDA right :
                           Then(exponentiation(tokens, right.pos),
                                LAMBDA again :
                                    multiplication_loop(
                                        tokens,
                                        List(<<Symbol(t.value.str), left, again.val>>),
                                        t, again.pos))))
    ELSE Parsed(left, pos)

multiplication(tokens, pos) ==
    Then(exponentiation(tokens, pos),
         LAMBDA left :
             multiplication_loop(tokens, left.val, tokens[left.pos], left.pos))

\* the while loop of addition: t was read once, before the loop
addition_loop(tokens, left, t, pos) ==
    IF Matches(tokens[pos], "OP", {"+", "-"})
    THEN Then(NextToken(tokens, pos),
              LAMBDA n :
                  Then(multiplication(tokens, n.pos),
                       LAMBDA right :
                           addition_loop(
                               tokens,
                               List(<<Symbol(t.value.str), left, right.val>>),
                               t, right.pos)))
    ELSE Parsed(left, pos)

addition(tokens, pos) ==
    Then(multiplication(tokens, pos),
         LAMBDA left :
             addition_loop(tokens, left.val, tokens[left.pos], left.pos))

\* parse(tokens)
algebra_parse(tokens) ==
    IF tokens[1].type = "ERROR" THEN Failed(SyntaxError("Unexpected character"))
    ELSE Then(addition(tokens, 1),
              LAMBDA tr : IF tokens[tr.pos].type # "END"
                          THEN error("end of input")
                          ELSE tr)

algebra_parse_expression(s) == algebra_parse(algebra_tokenize(s))

(***************************************************************************)
(* parse_scheme                                                            *)
(***************************************************************************)
\* the last position of the token that starts at j
RECURSIVE TokenEnd(_, _)
TokenEnd(s, j) ==
    IF j < Len(s) /\ s[j + 1] \notin Whitespace \cup {"(", ")"}
    THEN TokenEnd(s, j + 1) ELSE j

\* tokenize: parentheses set apart, then split at whitespace
RECURSIVE scheme_tokenize_from(_, _)
scheme_tokenize_from(s, i) ==
    IF i > Len(s) THEN <<>>
    ELSE IF s[i] \in Whitespace THEN scheme_tokenize_from(s, i + 1)
    ELSE IF s[i] \in {"(", ")"} THEN <<<<s[i]>>>> \o scheme_tokenize_from(s, i + 1)
    ELSE <<SubSeq(s, i, TokenEnd(s, i))>> \o scheme_tokenize_from(s, TokenEnd(s, i) + 1)

scheme_tokenize(s) == scheme_tokenize_from(s, 1)

RECURSIVE parse_internal(_, _)
RECURSIVE parse_internal_loop(_, _, _)

\* the while loop of parse_internal: until the lookahead is ")"
parse_internal_loop(ts, items, pos) ==
    IF pos <= Len(ts) /\ ts[pos] = <<")">>
    THEN Parsed(List(items), pos + 1)
    ELSE LET r == parse_internal(ts, pos)
         IN  IF ~r.ok THEN r
             ELSE parse_internal_loop(ts, Append(items, r.val), r.pos)

parse_internal(ts, pos) ==
    IF pos > Len(ts) THEN Failed(SyntaxError("unexpected EOF"))
    ELSE IF ts[pos] = <<"(">> THEN parse_internal_loop(ts, <<>>, pos + 1)
    ELSE IF ts[pos] = <<")">> THEN Failed(SyntaxError("unexpected )"))
    ELSE Parsed(atom(ts[pos]), pos + 1)

\* parse(tokens): the first expression of the tokens
scheme_parse(tokens) == parse_internal(tokens, 1)

scheme_parse_expression(s) == scheme_parse(scheme_tokenize(s))

(***************************************************************************)
(* parse: the dispatcher                                                   *)
(***************************************************************************)
\* re.match('\(.*\)$', s, re.MULTILINE): "(" first, then characters other
\* than a newline, then ")" at the end of the string or before a newline
LooksLikeScheme(s) ==
    /\ s # <<>>
    /\ s[1] = "("
    /\ \E i \in 2..Len(s) :
          /\ s[i] = ")"
          /\ \A k \in 2..(i - 1) : s[k] # "\n"
          /\ (i = Len(s) \/ s[i + 1] = "\n")

parse_expression(s) ==
    IF LooksLikeScheme(s) THEN scheme_parse_expression(s)
    ELSE algebra_parse_expression(s)

(***************************************************************************)
(* SpecScope: every operation of the root environment, with definitions    *)
(* that refer to themselves and to each other, a procedure that applies    *)
(* itself, and the define and set! forms.                                  *)
(***************************************************************************)
NamesScope == {"a", "b", "c", "+"}

\* (define c (+ 1 1)) and (set! b 2)
DefineC == List(<<Symbol("define"), Symbol("c"), TwoPlus>>)
SetB == SetBang("b", Num(2))

\* ((lambda (x) (x x)) (lambda (x) (x x)))
SelfApply == Lambda(<<Symbol("x")>>, Call1(Symbol("x"), <<Symbol("x")>>))
Omega == Call1(SelfApply, <<SelfApply>>)

ExpressionsScope == {DefineC, SetB, Symbol("c"), Symbol("a"), Omega}

\* a as b + 1, as 1 and as a itself; b as a
DefinitionsScope == [a |-> {APlus, Num(1), Symbol("a")}, b |-> {Symbol("a")}]

NextScope ==
    \/ \E e \in held, s \in {"a", "b"} : \E x \in DefinitionsScope[s] : Define(e, s, x)
    \/ \E e \in held : Add(e, "b", Num(1))
    \/ \E e \in held : Update(e, "b", Num(2))
    \/ \E e \in held : Assign(e, "b", Num(3))
    \/ \E e \in held, s \in NamesScope : Lookup(e, s)
    \/ \E e \in held, s \in NamesScope : Contains(e, s)
    \/ \E e \in held, x \in ExpressionsScope : Evaluate(e, x)

SpecScope == Init /\ [][NextScope]_vars

(***************************************************************************)
(* SpecThreads: one thread defines on the root environment while a second  *)
(* thread looks names up there.  The lookup is in three pieces: the read   *)
(* of the cache, the computation of the value, and the write of the value  *)
(* into the cache; the defining thread can run between the last two        *)
(* unless the two threads call the Environment under one lock.             *)
(***************************************************************************)
DefinitionsThreads == [a |-> {Num(1), Num(2), APlus}, b |-> {Num(1), Num(2)}]

\* __getitem__ after the cache missed: the value, not yet stored
compute_value(st, e, s, d) ==
    IF s \in DOMAIN st.definition_map[e]
    THEN Environment_evaluate(st, e, st.definition_map[e][s], d - 1)
    ELSE IF st.parent[e] # None
    THEN getitem(st, st.parent[e], s, d - 1)
    ELSE Raise(KeyError(s), st)

\* e[s], s in the cache
LookupCached(e, s) ==
    /\ pending = NoLookup
    /\ s \in DOMAIN value_map[e]
    /\ Lookup(e, s)

\* e[s], s not in the cache, up to the local variable value
LookupCompute(e, s) ==
    /\ pending = NoLookup
    /\ steps < MaxSteps
    /\ s \notin DOMAIN value_map[e]
    /\ LET r == compute_value(Store, e, s, MaxDepth)
           live == Reachable(r.st, held \cup (IF r.ok THEN EnvRefs(r.val) ELSE {}))
       IN  /\ r.ok
           /\ parent' = [n \in live |-> r.st.parent[n]]
           /\ definition_map' = [n \in live |-> r.st.definition_map[n]]
           /\ value_map' = [n \in live |-> r.st.value_map[n]]
           /\ update_listeners' = [n \in live |-> r.st.update_listeners[n] \cap live]
           /\ pending' = [env |-> e, s |-> s, value |-> r.val]
    /\ UNCHANGED <<held, collector, last, result, calls, steps, dropped,
                   text, tree, serialized>>

\* self._value_map[s] = value; return value
LookupStore ==
    /\ pending # NoLookup
    /\ Finish(Return(pending.value,
                     [Store EXCEPT !.value_map[pending.env] =
                                       Put(@, pending.s, pending.value)]),
              Call("lookup", pending.env, pending.s, NoneValue), held)

\* e.define(s, x) on the defining thread
DefineThread(e, s, x) ==
    /\ serialized => pending = NoLookup
    /\ Define(e, s, x)

InitThreads ==
    /\ InitEnvironment
    /\ text = <<>>
    /\ tree = NoTree
    /\ serialized \in BOOLEAN

NextThreads ==
    \/ \E e \in held, s \in Names : \E x \in DefinitionsThreads[s] : DefineThread(e, s, x)
    \/ \E e \in held, s \in Names : LookupCached(e, s)
    \/ \E e \in held, s \in Names : LookupCompute(e, s)
    \/ LookupStore

SpecThreads == InitThreads /\ [][NextThreads]_vars

(***************************************************************************)
(* SpecParse: the host hands one string to a front end.                    *)
(***************************************************************************)
Alphabet == {"a", "2", "+", "*", "^", "(", ")", " ", "\n", "$"}

\* every string over Alphabet of at most n characters
RECURSIVE Strings(_)
Strings(n) ==
    IF n = 0 THEN {<<>>}
    ELSE LET shorter == Strings(n - 1)
         IN  shorter \cup {Append(w, c) : w \in {v \in shorter : Len(v) = n - 1},
                                          c \in Alphabet}

\* the atoms the longer strings are built from, and three of them in a row
AtomTexts == {<<"a">>, <<"b">>, <<"1">>, <<"2">>}
AtomTriples == {<< <<"a">>, <<"b">>, <<"c">> >>, << <<"2">>, <<"3">>, <<"4">> >>,
                << <<"2">>, <<"3">>, <<"2">> >>}

\* "a op b", "(op a b)" and "a op1 b op2 c"
Infix(a, op, b) == a \o <<" ", op, " ">> \o b
Prefix(op, a, b) == <<"(", op, " ">> \o a \o <<" ">> \o b \o <<")">>
Infix2(a, op1, b, op2, c) == a \o <<" ", op1, " ">> \o b \o <<" ", op2, " ">> \o c

\* strings in which a right operand of * or / is followed by one more operand
Doubled ==
    {<<"a", " ", "^", " ", "b", " ", op, " ", "c", " ", "a">> : op \in {"*", "/"}}
    \cup {<<"a", " ", op, " ", "b", " ", "c", " ", "^", " ", "a">> : op \in {"*", "/"}}

\* "(2+3)*4", "(a+3)*(b+5)", "(+ 1 2) 3", "(a))", "a + b )", "(+ 1\n 2)",
\* "(a)\n+ 1", "(a)\nb)"
Examples ==
    {<<"(", "2", "+", "3", ")", "*", "4">>,
     <<"(", "a", "+", "3", ")", "*", "(", "b", "+", "5", ")">>,
     <<"(", "+", " ", "1", " ", "2", ")", " ", "3">>,
     <<"(", "a", ")", ")">>,
     <<"a", " ", "+", " ", "b", " ", ")">>,
     <<"(", "+", " ", "1", "\n", " ", "2", ")">>,
     <<"(", "a", ")", "\n", "+", " ", "1">>,
     <<"(", "a", ")", "\n", "b", ")">>}

Texts ==
    Strings(MaxLen)
    \cup {Infix(a, op, b) : a \in AtomTexts, op \in Operators, b \in AtomTexts}
    \cup {Prefix(op, a, b) : a \in AtomTexts, op \in Operators, b \in AtomTexts}
    \cup {Infix2(t[1], op1, t[2], op2, t[3]) :
              t \in AtomTriples, op1 \in Operators, op2 \in Operators}
    \cup Doubled
    \cup Examples

InitParse ==
    /\ InitEnvironment
    /\ text \in Texts
    /\ tree = NoTree
    /\ serialized = FALSE

\* the outcome r of a front end, asked for through the function via
Answer(via, front, r) == [via |-> via, front |-> front, ok |-> r.ok, val |-> r.val]

unchangedEnvironments ==
    UNCHANGED <<parent, definition_map, value_map, update_listeners, held,
                collector, last, result, calls, steps, dropped, text,
                pending, serialized>>

\* parse_algebra.parse_expression(text)
ParseAlgebra ==
    /\ tree' = Answer("parse_algebra", "algebra", algebra_parse_expression(text))
    /\ unchangedEnvironments

\* parse_scheme.parse_expression(text)
ParseScheme ==
    /\ tree' = Answer("parse_scheme", "scheme", scheme_parse_expression(text))
    /\ unchangedEnvironments

\* pyscheme.parse_expression(text)
ParseExpression ==
    /\ tree' = Answer("parse_expression",
                      IF LooksLikeScheme(text) THEN "scheme" ELSE "algebra",
                      parse_expression(text))
    /\ unchangedEnvironments

NextParse ==
    \/ ParseAlgebra
    \/ ParseScheme
    \/ ParseExpression

SpecParse == InitParse /\ [][NextParse]_vars

(***************************************************************************)
(* SpecTokens: the host runs the algebraic tokenizer over one string.      *)
(***************************************************************************)
\* list(tokenize(s)): the tokens, or the failure the generator raises
TokenStream(s) ==
    LET tokens == algebra_tokenize(s)
    IN  IF tokens[Len(tokens)].type = "ERROR"
        THEN Failed(SyntaxError("Unexpected character"))
        ELSE Parsed(List(tokens), Len(tokens))

\* list(parse_algebra.tokenize(text))
Tokenize ==
    /\ tree' = Answer("tokenize", "algebra", TokenStream(text))
    /\ unchangedEnvironments

NextTokens == Tokenize

SpecTokens == InitParse /\ [][NextTokens]_vars

(***************************************************************************)
(* Helpers of the properties.                                              *)
(***************************************************************************)
\* what a call gave back, without the store
Outcome(r) == [ok |-> r.ok, val |-> r.val]
Returned(v) == [ok |-> TRUE, val |-> v]
Raised(e) == [ok |-> FALSE, val |-> e]

\* a step that is a call of the host
IsCall == steps' = steps + 1

\* e and the Environments above it
RECURSIVE Chain(_)
Chain(e) == IF e = None THEN {} ELSE {e} \cup Chain(parent[e])

\* the live Environments created, transitively, with e as parent
Descendants(e) == {d \in DOMAIN parent : d # e /\ e \in Chain(d)}

(***************************************************************************)
(* C1: after define(name, expr) on an Environment E the value cache of E   *)
(* is empty and so is the value cache of every live Environment created,   *)
(* transitively, with E as its parent.                                     *)
(***************************************************************************)
C1_DefineClearsDescendants ==
    last.op = "define" =>
        \A d \in {last.env} \cup Descendants(last.env) : value_map[d] = EmptyMap

(***************************************************************************)
(* C2: with a := (+ b 1) and b := n both defined in one Environment E,     *)
(* every E.evaluate of a returns n + 1 for the n b is defined as now, and  *)
(* every E.evaluate of (+ a 1) returns n + 2: no evaluate returns a value  *)
(* computed from a definition of b that has been replaced.                 *)
(***************************************************************************)
C2_RedefinitionObserved ==
    (/\ last.op = "evaluate"
     /\ "a" \in DOMAIN definition_map[last.env]
     /\ "b" \in DOMAIN definition_map[last.env]
     /\ definition_map[last.env]["a"] = APlus)
    => LET n == definition_map[last.env]["b"].num
       IN  /\ last.x = Symbol("a") => result = Returned(Num(n + 1))
           /\ last.x = Plus(Symbol("a"), Num(1)) => result = Returned(Num(n + 2))

\* a was cached in E as 2, a define on E dropped it, and the evaluate of a
\* that followed returned 3
C2_Witness ==
    /\ last.op = "evaluate"
    /\ last.x = Symbol("a")
    /\ result = Returned(Num(3))
    /\ last.env \in DOMAIN dropped
    /\ "a" \in DOMAIN dropped[last.env]
    /\ dropped[last.env]["a"] = Num(2)
    /\ definition_map[last.env]["b"] = Num(2)

(***************************************************************************)
(* C3: after update([(b, v)]) or add(b, v) on an Environment E that        *)
(* defines a := (+ b 1), every E.evaluate of a is computed with b = v: it  *)
(* returns v + 1 for the value b has in E now.                             *)
(***************************************************************************)
C3_EvaluateSeesUpdate ==
    (/\ last.op = "evaluate"
     /\ last.x = Symbol("a")
     /\ "a" \in DOMAIN definition_map[last.env]
     /\ "b" \in DOMAIN value_map[last.env]
     /\ IsNum(value_map[last.env]["b"]))
    => result = Returned(Num(value_map[last.env]["b"].num + 1))

(***************************************************************************)
(* C4: with a := (+ b 1) defined in E and b a value of E, an evaluate of a *)
(* that finds a not yet cached returns b + 1 and invokes the builtin once; *)
(* an evaluate of a that directly follows a successful evaluate of a on    *)
(* the same Environment returns the same value and invokes no builtin.     *)
(***************************************************************************)
C4_SecondEvaluateFromCache ==
    [][(/\ IsCall
        /\ last'.op = "evaluate"
        /\ last'.x = Symbol("a"))
       => LET e == last'.env
          IN  /\ (/\ "a" \notin DOMAIN value_map[e]
                  /\ "a" \in DOMAIN definition_map[e]
                  /\ "b" \in DOMAIN value_map[e])
                 => /\ result' = Returned(Num(value_map[e]["b"].num + 1))
                    /\ calls' = 1
              /\ (/\ last.op = "evaluate"
                  /\ last.x = Symbol("a")
                  /\ last.env = e
                  /\ result.ok)
                 => /\ result' = result
                    /\ calls' = 0]_vars

\* a second evaluate of a, answered 2 from the cache with no builtin call
C4_Witness ==
    /\ last.op = "evaluate"
    /\ last.x = Symbol("a")
    /\ "a" \in DOMAIN definition_map[last.env]
    /\ definition_map[last.env]["a"] = APlus
    /\ result = Returned(Num(2))
    /\ calls = 0

(***************************************************************************)
(* C5, as stated: a lookup raises the unresolved-symbol failure exactly    *)
(* when no Environment from E up to the root holds the name as a value or  *)
(* a definition.                                                           *)
(***************************************************************************)
C5_UnresolvedExactlyWhenAbsent ==
    last.op = "lookup" =>
        ((~result.ok /\ result.val.error = "KeyError")
            <=> ~contains(Store, last.env, last.s))

(***************************************************************************)
(* C5: lookup(name) on E returns E's cached value when there is one;       *)
(* otherwise what evaluating E's definition of name in a new child of E    *)
(* gives; otherwise what lookup(name) on E's parent gives.  It raises the  *)
(* unresolved-symbol failure for name whenever no Environment from E to    *)
(* the root holds name (it can raise it for a held name too, when the      *)
(* evaluation of a definition fails).  A successful lookup leaves the      *)
(* returned value in E's cache, also when it came from an ancestor.        *)
(***************************************************************************)
C5_LookupOrder ==
    [][(IsCall /\ last'.op = "lookup")
       => LET e == last'.env
              s == last'.s
              cached == s \in DOMAIN value_map[e]
              defined == s \in DOMAIN definition_map[e]
          IN  /\ cached => result' = Returned(value_map[e][s])
              /\ (~cached /\ defined)
                 => result' = Outcome(Environment_evaluate(
                                  Store, e, definition_map[e][s], MaxDepth - 1))
              /\ (~cached /\ ~defined /\ parent[e] # None)
                 => result' = Outcome(getitem(Store, parent[e], s, MaxDepth - 1))
              /\ ~contains(Store, e, s) => result' = Raised(KeyError(s))
              /\ result'.ok
                 => /\ s \in DOMAIN value_map'[e]
                    /\ value_map'[e][s] = result'.val]_vars

\* a lookup of a, which E defines, failed on b, which nothing holds
C5_Witness ==
    /\ last.op = "lookup"
    /\ last.s = "a"
    /\ "a" \in DOMAIN definition_map[last.env]
    /\ result = Raised(KeyError("b"))

(***************************************************************************)
(* C6: on a new child E of any Environment, define(a, e1), a lookup,       *)
(* define(b, e2) and define(b, e2), the same lookup, define(a, e1) leave   *)
(* an E on which every evaluate returns the same result.                   *)
(***************************************************************************)
DefineLookupDefine(p, n1, x1, n, n2, x2) ==
    LET E == Environment(Store, p, EmptyMap, EmptyMap)
        st1 == define(E.st, E.id, n1, x1)
        st2 == getitem(st1, E.id, n, MaxDepth).st
    IN  [id |-> E.id, st |-> define(st2, E.id, n2, x2)]

ExpressionsOrder == Expressions \cup {SetBang("a", Num(2))}

C6_DefineOrderIrrelevant ==
    \A p \in held : \A e1 \in DefinitionsDefine.a : \A e2 \in DefinitionsDefine.b :
        \A n \in Names : \A x \in ExpressionsOrder :
            LET ab == DefineLookupDefine(p, "a", e1, n, "b", e2)
                ba == DefineLookupDefine(p, "b", e2, n, "a", e1)
            IN  Outcome(Environment_evaluate(ab.st, ab.id, x, MaxDepth))
                    = Outcome(Environment_evaluate(ba.st, ba.id, x, MaxDepth))

(***************************************************************************)
(* C7: a call of the Procedure b, made by lambda with the body a, returns  *)
(* the a that the Environment captured by the lambda resolves, whatever a  *)
(* is in the Environment the call is made from.                            *)
(***************************************************************************)
C7_LexicalScope ==
    (/\ last.op = "evaluate"
     /\ "b" \in DOMAIN value_map[last.env]
     /\ IsProcedure(value_map[last.env]["b"]))
    => result = Outcome(getitem(Store, value_map[last.env]["b"].env, "a", MaxDepth))

\* b was made where a = 1 and called from a scope where a = 2: it returned 1
C7_Witness ==
    /\ last.op = "evaluate"
    /\ last.x = List(<<Lambda(<<Symbol("a")>>, List(<<Symbol("b")>>)), Num(2)>>)
    /\ "b" \in DOMAIN value_map[last.env]
    /\ IsProcedure(value_map[last.env]["b"])
    /\ result = Returned(Num(1))

\* the nearest Environment from e upwards that has s as a value and not as a
\* definition, None when there is none
RECURSIVE Target(_, _)
Target(e, s) ==
    IF e = None THEN None
    ELSE IF s \in DOMAIN value_map[e] /\ s \notin DOMAIN definition_map[e]
    THEN e
    ELSE Target(parent[e], s)

(***************************************************************************)
(* C8: assign(name, v) on E overwrites the cached value of name in the     *)
(* nearest Environment of E, parent(E), ... that has name as a value and   *)
(* not as a definition, and changes nothing else; with no such             *)
(* Environment it fails and changes nothing.  The cached value of name in  *)
(* an Environment that defines name is never changed.                      *)
(***************************************************************************)
C8_AssignFrame ==
    [][(IsCall /\ last'.op = "assign")
       => LET e == last'.env
              s == last'.s
              t == Target(e, s)
          IN  /\ definition_map' = definition_map
              /\ parent' = parent
              /\ update_listeners' = update_listeners
              /\ t # None
                 => /\ result' = Returned(NoneValue)
                    /\ value_map' = [value_map EXCEPT ![t][s] = last'.x]
              /\ t = None
                 => /\ result' = Raised(KeyError(s))
                    /\ value_map' = value_map
              /\ \A n \in DOMAIN value_map :
                    s \in DOMAIN definition_map[n] => value_map'[n] = value_map[n]]_vars

\* an assign on an Environment that defines a went to the parent
C8_Witness ==
    /\ last.op = "assign"
    /\ result.ok
    /\ "a" \in DOMAIN definition_map[last.env]
    /\ parent[last.env] # None
    /\ "a" \in DOMAIN value_map[parent[last.env]]
    /\ value_map[parent[last.env]]["a"] = Num(2)

(***************************************************************************)
(* C9, as stated: once z is a cached value of an Environment, in whatever  *)
(* way it became one, assign(z, v) on it succeeds and leaves z = v there.  *)
(***************************************************************************)
C9_AssignAfterCached ==
    [][(/\ IsCall
        /\ last'.op = "assign"
        /\ last'.s \in DOMAIN value_map[last'.env])
       => /\ result'.ok
          /\ value_map'[last'.env][last'.s] = last'.x]_vars

(***************************************************************************)
(* C9: assign(z, v) fails with the invalid-assignment failure when no      *)
(* Environment of the chain has z as a value that is not a definition      *)
(* there: z never read or added anywhere in the chain, or z cached only    *)
(* where it is defined.  When z is a cached value of E and not a           *)
(* definition of E the assign succeeds, z = v in E, and a lookup of z      *)
(* that directly follows returns v.  When z is a definition of E the       *)
(* cache of E is left as it was.                                           *)
(***************************************************************************)
C9_AssignAsymmetry ==
    [][IsCall
       => /\ last'.op = "assign"
             => LET e == last'.env
                    s == last'.s
                IN  /\ Target(e, s) = None => result' = Raised(KeyError(s))
                    /\ (s \in DOMAIN value_map[e] /\ s \notin DOMAIN definition_map[e])
                       => /\ result' = Returned(NoneValue)
                          /\ value_map'[e][s] = last'.x
                    /\ s \in DOMAIN definition_map[e]
                       => value_map'[e] = value_map[e]
          /\ (/\ last'.op = "lookup"
              /\ last.op = "assign"
              /\ result.ok
              /\ last'.env = last.env
              /\ last'.s = last.s
              /\ last.s \notin DOMAIN definition_map[last.env]
              /\ last.s \in DOMAIN value_map[last.env])
             => result' = Returned(last.x)]_vars

\* a is a definition of E that a lookup has evaluated and cached, and the
\* assign failed
C9_Witness ==
    /\ last.op = "assign"
    /\ result = Raised(KeyError("a"))
    /\ "a" \in DOMAIN definition_map[last.env]
    /\ "a" \in DOMAIN value_map[last.env]

(***************************************************************************)
(* C10: with a bound as a value in E, E.evaluate of (set! a expr), which   *)
(* runs in a child scope of E, changes the binding of a in E to the value  *)
(* of expr, also when expr reads a.                                        *)
(***************************************************************************)
C10_SetBangChangesBinding ==
    [][(/\ IsCall
        /\ last'.op = "evaluate"
        /\ last'.x \in {SetBang("a", Num(2)), SetBang("a", Plus(Symbol("a"), Num(1)))}
        /\ "a" \in DOMAIN value_map[last'.env]
        /\ "a" \notin DOMAIN definition_map[last'.env])
       => LET e == last'.env
              old == value_map[e]["a"]
          IN  /\ result' = Returned(NoneValue)
              /\ value_map'[e]["a"] = IF last'.x = SetBang("a", Num(2))
                                      THEN Num(2)
                                      ELSE Num(old.num + 1)]_vars

(***************************************************************************)
(* C11: when a is a value of E that a new child of E has looked up and     *)
(* cached, and an assign then overwrites a in E, a lookup of a on the      *)
(* child returns the assigned value, not the one cached before the assign. *)
(***************************************************************************)
LookupAfterParentAssign(e, s, v) ==
    LET d == Environment(Store, e, EmptyMap, EmptyMap)
        before == getitem(d.st, d.id, s, MaxDepth)
        assigned == setitem(before.st, e, s, v)
    IN  getitem(assigned.st, d.id, s, MaxDepth)

C11_AssignInvalidatesDescendants ==
    \A e \in held :
        ("a" \in DOMAIN value_map[e] /\ "a" \notin DOMAIN definition_map[e])
        => Outcome(LookupAfterParentAssign(e, "a", Num(2))) = Returned(Num(2))

(***************************************************************************)
(* C12: a call of a Procedure with more or with fewer arguments than it    *)
(* has parameters raises a structural failure and returns no value.        *)
(***************************************************************************)
C12_ArityMismatchFails ==
    (last.op = "evaluate" /\ last.x \in {SurplusCall, ShortCall})
    => (~result.ok /\ result.val \in {TypeError, ValueError})

(***************************************************************************)
(* C13: E.evaluate of (if test conseq alt) evaluates test once and then    *)
(* one branch only: conseq when the test value is true or a number other   *)
(* than 0, alt when it is false, 0 or the empty list.  The value of that   *)
(* branch is returned, its builtin call or its set! is the only one that   *)
(* happens besides those of the test, and an unresolved symbol in the      *)
(* other branch raises nothing.                                            *)
(***************************************************************************)
C13_IfEvaluatesOneBranch ==
    [][(IsCall /\ last'.op = "evaluate" /\ last'.x \in IfForms)
       => LET e == last'.env
              test == last'.x.list[2]
              taken == IF test \in TruthyTests THEN last'.x.list[3]
                                               ELSE last'.x.list[4]
              testcalls == IF IsList(test) /\ ~is_symbol(test.list[1], "quote")
                           THEN 1 ELSE 0
              bound == "a" \in DOMAIN value_map[e]
          IN  /\ taken = TwoPlus
                 => /\ result' = Returned(Num(2))
                    /\ calls' = testcalls + 1
                    /\ bound = ("a" \in DOMAIN value_map'[e])
                    /\ bound => value_map'[e]["a"] = value_map[e]["a"]
              /\ taken = SetA
                 => /\ calls' = testcalls
                    /\ bound => /\ result' = Returned(NoneValue)
                                /\ value_map'[e]["a"] = Num(5)
                    /\ ~bound => /\ result' = Raised(KeyError("a"))
                                 /\ "a" \notin DOMAIN value_map'[e]
              /\ taken = Num(1)
                 => /\ result' = Returned(Num(1))
                    /\ calls' = testcalls
              /\ taken = Symbol("c") => result' = Raised(KeyError("c"))]_vars

\* the test (- 1 1) gave 0: set! ran, the builtin of the other branch did not
C13_Witness ==
    /\ last.op = "evaluate"
    /\ last.x = IfForm(Minus(Num(1), Num(1)), TwoPlus, SetA)
    /\ result = Returned(NoneValue)
    /\ calls = 1
    /\ value_map[last.env]["a"] = Num(5)

\* the tree [op, l, r]
Node(op, l, r) == List(<<Symbol(op), l, r>>)

\* the root environment evaluates the tree t to v
EvaluatesTo(t, v) ==
    \A e \in held : Outcome(Environment_evaluate(Store, e, t, MaxDepth)) = Returned(v)

(***************************************************************************)
(* C14: for every operator op of + - * / ^ and atoms a and b the algebraic *)
(* parse of "a op b" and the symbolic parse of "(op a b)" are the tree     *)
(* [op, a, b], and for + with 1 and 2 the tree evaluates to 3.             *)
(***************************************************************************)
C14_GrammarsAgree ==
    \A op \in Operators : \A a \in AtomTexts : \A b \in AtomTexts :
        ((text = Infix(a, op, b) /\ tree.via = "parse_algebra")
         \/ (text = Prefix(op, a, b) /\ tree.via = "parse_scheme"))
        => /\ tree.ok
           /\ tree.val = Node(op, atom(a), atom(b))
           /\ (op = "+" /\ a = <<"1">> /\ b = <<"2">>) => EvaluatesTo(tree.val, Num(3))

(***************************************************************************)
(* C15: the algebraic parse of "2 + 3 * 4" is [+, 2, [*, 3, 4]] and        *)
(* evaluates to 14, that of "(2+3)*4" is [*, [+, 2, 3], 4] and evaluates   *)
(* to 20, and "a + b * c" parses to [+, a, [*, b, c]].                     *)
(***************************************************************************)
C15_MultiplicationBindsTighter ==
    tree.via = "parse_algebra"
    => /\ \A t \in AtomTriples :
             text = Infix2(t[1], "+", t[2], "*", t[3])
             => /\ tree.ok
                /\ tree.val = Node("+", atom(t[1]), Node("*", atom(t[2]), atom(t[3])))
       /\ text = Infix2(<<"2">>, "+", <<"3">>, "*", <<"4">>)
          => tree.ok /\ EvaluatesTo(tree.val, Num(14))
       /\ text = <<"(", "2", "+", "3", ")", "*", "4">>
          => /\ tree.ok
             /\ tree.val = Node("*", Node("+", Num(2), Num(3)), Num(4))
             /\ EvaluatesTo(tree.val, Num(20))

\* the number a tree of ^ nodes over numbers stands for
RECURSIVE Denotes(_)
Denotes(t) == IF IsNum(t) THEN t.num ELSE Denotes(t.list[2]) ^ Denotes(t.list[3])

\* in the tree, the left operand of every ^ is an atom and its right operand
\* an atom or another ^
RECURSIVE ExponentsInnermost(_)
ExponentsInnermost(t) ==
    IsList(t)
    => /\ t.list[1].sym = "^"
          => /\ ~IsList(t.list[2])
             /\ IsList(t.list[3]) => t.list[3].list[1].sym = "^"
       /\ ExponentsInnermost(t.list[2])
       /\ ExponentsInnermost(t.list[3])

(***************************************************************************)
(* C16: the algebraic parse of "a ^ b ^ c" is [^, a, [^, b, c]], so that   *)
(* "2 ^ 3 ^ 2" stands for 2^(3^2) = 512; and in every tree the algebraic   *)
(* parser returns for a string without parentheses, the operands of ^ are  *)
(* atoms or ^ nodes, never a * or / node: ^ binds tighter.                 *)
(***************************************************************************)
C16_ExponentiationRightAssociative ==
    tree.via = "parse_algebra"
    => /\ \A t \in AtomTriples :
             text = Infix2(t[1], "^", t[2], "^", t[3])
             => /\ tree.ok
                /\ tree.val = Node("^", atom(t[1]), Node("^", atom(t[2]), atom(t[3])))
       /\ text = Infix2(<<"2">>, "^", <<"3">>, "^", <<"2">>)
          => tree.ok /\ Denotes(tree.val) = 512
       /\ (tree.ok /\ \A i \in 1..Len(text) : text[i] # "(")
          => ExponentsInnermost(tree.val)

\* "2 ^ 3 ^ 2" was parsed to [^, 2, [^, 3, 2]]
C16_Witness ==
    /\ tree.via = "parse_algebra"
    /\ text = Infix2(<<"2">>, "^", <<"3">>, "^", <<"2">>)
    /\ tree.ok
    /\ tree.val = Node("^", Num(2), Node("^", Num(3), Num(2)))

(***************************************************************************)
(* C17: for op1 and op2 of + and - the algebraic parse of "a op1 b op2 c"  *)
(* is [op2, [op1, a, b], c].                                               *)
(***************************************************************************)
C17_AdditionLeftAssociative ==
    \A t \in AtomTriples : \A op1 \in {"+", "-"} : \A op2 \in {"+", "-"} :
        (tree.via = "parse_algebra" /\ text = Infix2(t[1], op1, t[2], op2, t[3]))
        => /\ tree.ok
           /\ tree.val = Node(op2, Node(op1, atom(t[1]), atom(t[2])), atom(t[3]))

(***************************************************************************)
(* C18: when tokens remain after the first complete expression of the      *)
(* string, the algebraic parser and the symbolic parser raise a syntax     *)
(* failure and return no tree.                                             *)
(***************************************************************************)
C18_TrailingTokensRejected ==
    /\ tree.via = "parse_algebra"
       => LET tokens == algebra_tokenize(text)
              first == IF tokens[1].type = "ERROR" THEN Failed(NoneValue)
                       ELSE addition(tokens, 1)
          IN  (first.ok /\ tokens[first.pos].type # "END")
              => (~tree.ok /\ tree.val.error = "SyntaxError")
    /\ tree.via = "parse_scheme"
       => LET tokens == scheme_tokenize(text)
              first == parse_internal(tokens, 1)
          IN  (first.ok /\ first.pos <= Len(tokens))
              => (~tree.ok /\ tree.val.error = "SyntaxError")

(***************************************************************************)
(* C19: the dispatcher hands the string to the symbolic parser exactly     *)
(* when the string as a whole starts with "(" and ends with ")", and to    *)
(* the algebraic parser otherwise.                                         *)
(***************************************************************************)
C19_DispatchOnWholeString ==
    tree.via = "parse_expression"
    => ((tree.front = "scheme")
            <=> (text # <<>> /\ text[1] = "(" /\ text[Len(text)] = ")"))

(***************************************************************************)
(* C20: "(a+3)*(b+5)" goes to the symbolic parser, which raises a syntax   *)
(* failure for it and returns no tree.                                     *)
(***************************************************************************)
C20_ParenthesizedAlgebraFails ==
    (/\ tree.via = "parse_expression"
     /\ text = <<"(", "a", "+", "3", ")", "*", "(", "b", "+", "5", ")">>)
    => /\ tree.front = "scheme"
       /\ ~tree.ok
       /\ tree.val.error = "SyntaxError"

\* the names of the builtins, and the builtin of a name
BuiltinNames == {builtins[i][1] : i \in 1..Len(builtins)}
BuiltinValue(b) == builtins[CHOOSE i \in 1..Len(builtins) : builtins[i][1] = b][2]

(***************************************************************************)
(* C24: on the root environment and the Environments below it, whatever    *)
(* was defined, looked up and evaluated, every builtin name that no        *)
(* Environment of the chain defines resolves to its builtin.               *)
(***************************************************************************)
C24_BuiltinsSurviveDefine ==
    \A e \in held : \A b \in BuiltinNames :
        (\A n \in Chain(e) : b \notin DOMAIN definition_map[n])
        => Outcome(getitem(Store, e, b, MaxDepth)) = Returned(BuiltinValue(b))

\* a define on the root environment has just cleared its cached "+"
C24_Witness ==
    /\ last.op = "define"
    /\ parent[last.env] # None
    /\ parent[parent[last.env]] = None
    /\ last.env \in DOMAIN dropped
    /\ "+" \in DOMAIN dropped[last.env]
    /\ "+" \notin DOMAIN value_map[last.env]
    /\ Outcome(getitem(Store, last.env, "+", MaxDepth)) = Returned(Builtin("add"))

(***************************************************************************)
(* C27: the algebraic parse of "a * b" is [*, a, b] and that of            *)
(* "a * b / c" is [/, [*, a, b], c], as a parser gives them that parses    *)
(* each right operand of * and / once.                                     *)
(***************************************************************************)
C27_DoubleParseUnobservable ==
    tree.via = "parse_algebra"
    => \A t \in AtomTriples :
          /\ text = Infix(t[1], "*", t[2])
             => /\ tree.ok
                /\ tree.val = Node("*", atom(t[1]), atom(t[2]))
          /\ text = Infix2(t[1], "*", t[2], "/", t[3])
             => /\ tree.ok
                /\ tree.val = Node("/", Node("*", atom(t[1]), atom(t[2])), atom(t[3]))

(***************************************************************************)
(* C28: an assign that fails leaves the parent, the definitions, the       *)
(* value cache and the listeners of every Environment as they were.        *)
(***************************************************************************)
C28_FailedAssignChangesNothing ==
    [][(IsCall /\ last'.op = "assign" /\ ~result'.ok)
       => /\ result' = Raised(KeyError(last'.s))
          /\ Target(last'.env, last'.s) = None
          /\ definition_map' = definition_map
          /\ value_map' = value_map
          /\ parent' = parent
          /\ update_listeners' = update_listeners]_vars

\* an assign of a to an Environment that defines a, with no value of a
\* above it, has failed
C28_Witness ==
    /\ last.op = "assign"
    /\ ~result.ok
    /\ last.s \in DOMAIN definition_map[last.env]
    /\ \A n \in Chain(last.env) : last.s \notin DOMAIN value_map[n]

\* the string is made of digits, operators, parentheses and whitespace
OverNumbers(s) ==
    \A i \in 1..Len(s) : s[i] \in DigitSet \cup Operators \cup Whitespace \cup {"(", ")"}

(***************************************************************************)
(* C30: + - * / and ^ each resolve to a builtin in the root environment,   *)
(* and the tree of a successful algebraic parse of a string over numbers   *)
(* does not fail there with an unresolved operator.                        *)
(***************************************************************************)
C30_OperatorsResolve ==
    \A e \in held :
        /\ (tree.via = "parse_algebra" /\ tree.ok /\ OverNumbers(text))
           => \A op \in Operators :
                 Outcome(Environment_evaluate(Store, e, tree.val, MaxDepth))
                     # Raised(KeyError(op))
        /\ tree.via # ""
           => \A op \in Operators : IsBuiltin(getitem(Store, e, op, MaxDepth).val)

\* the string has no character the tokenizer rejects
Clean(s) ==
    \A i \in 1..Len(s) : \/ IsWordChar(s[i])
                         \/ s[i] \in Operators \cup {"(", ")"} \cup Whitespace

\* the string with a space after every operator and parenthesis
RECURSIVE Spaced(_)
Spaced(s) ==
    IF s = <<>> THEN <<>>
    ELSE IF Head(s) \in Operators \cup {"(", ")"}
    THEN <<Head(s), " ">> \o Spaced(Tail(s))
    ELSE <<Head(s)>> \o Spaced(Tail(s))

\* the string without the spaces at its two ends
RECURSIVE Trimmed(_)
Trimmed(s) ==
    IF s = <<>> THEN s
    ELSE IF Head(s) = " " THEN Trimmed(Tail(s))
    ELSE IF s[Len(s)] = " " THEN Trimmed(SubSeq(s, 1, Len(s) - 1))
    ELSE s

(***************************************************************************)
(* C26: for a string without error characters the algebraic tokenizer      *)
(* returns a token stream that has one end-of-input token, at its end, and *)
(* returns the same stream for the string with a space added in front,     *)
(* with a space added behind, with spaces added between the lexemes, and   *)
(* with the spaces at its ends removed.                                    *)
(***************************************************************************)
C26_WhitespaceInsignificant ==
    (tree.via = "tokenize" /\ Clean(text))
    => /\ tree.ok
       /\ \A i \in 1..Len(tree.val.list) :
             tree.val.list[i].type = "END" <=> i = Len(tree.val.list)
       /\ Outcome(TokenStream(<<" ">> \o text)) = Outcome(tree)
       /\ Outcome(TokenStream(text \o <<" ">>)) = Outcome(tree)
       /\ Outcome(TokenStream(Spaced(text))) = Outcome(tree)
       /\ Outcome(TokenStream(Trimmed(text))) = Outcome(tree)

\* in Environment e, s is defined as itself, or as an expression of a name
\* that is defined as s
InCycle(e, s) ==
    /\ s \in DOMAIN definition_map[e]
    /\ \/ definition_map[e][s] = Symbol(s)
       \/ \E t \in DOMAIN definition_map[e] :
             /\ definition_map[e][s] \in {Symbol(t), Plus(Symbol(t), Num(1))}
             /\ definition_map[e][t] = Symbol(s)
             /\ t \notin DOMAIN value_map[e]

IsDefineForm(x) ==
    IsList(x) /\ Len(x.list) = 3 /\ is_symbol(x.list[1], "define") /\ IsSymbol(x.list[2])

(***************************************************************************)
(* C22: E.evaluate of a define form for the name v leaves the definitions  *)
(* of E as they were, leaves v in the value cache of E as it was, and      *)
(* leaves v resolving on E exactly as before; the name c, which only a     *)
(* define form ever binds, never resolves.                                 *)
(***************************************************************************)
C22_DefineFormStaysInChild ==
    /\ [][(IsCall /\ last'.op = "evaluate" /\ IsDefineForm(last'.x))
          => LET e == last'.env
                 v == last'.x.list[2].sym
             IN  /\ result' = Returned(NoneValue)
                 /\ definition_map'[e] = definition_map[e]
                 /\ v \notin DOMAIN definition_map'[e]
                 /\ (v \in DOMAIN value_map'[e]) = (v \in DOMAIN value_map[e])
                 /\ contains(Store', e, v) = contains(Store, e, v)
                 /\ Outcome(getitem(Store', e, v, MaxDepth))
                        = Outcome(getitem(Store, e, v, MaxDepth))]_vars
    /\ [](\A e \in held :
             /\ ~contains(Store, e, "c")
             /\ Outcome(getitem(Store, e, "c", MaxDepth)) = Raised(KeyError("c"))
             /\ Outcome(Environment_evaluate(Store, e, Symbol("c"), MaxDepth))
                    = Raised(KeyError("c")))

\* after (define c (+ 1 1)) was evaluated on it, the Environment holds the
\* builtin the form used and not c
C22_Witness ==
    /\ last.op = "evaluate"
    /\ last.x = DefineC
    /\ result = Returned(NoneValue)
    /\ "+" \in DOMAIN value_map[last.env]
    /\ "c" \notin DOMAIN value_map[last.env]

(***************************************************************************)
(* C23: when the membership test answers true, the lookup of the name on   *)
(* the same Environment returns a value; when it answers false, the        *)
(* lookup raises the unresolved-symbol failure for the name.               *)
(***************************************************************************)
C23_MembershipIsResolution ==
    last.op = "contains"
    => LET r == getitem(Store, last.env, last.s, MaxDepth)
       IN  /\ result.val = Bool(TRUE) => r.ok
           /\ result.val = Bool(FALSE) => Outcome(r) = Raised(KeyError(last.s))

(***************************************************************************)
(* C29: a call that is not a define leaves the definitions of every        *)
(* Environment as they were; define(name, expr) on E sets E's entry for    *)
(* name to expr, adds no other entry and changes no other Environment.     *)
(***************************************************************************)
C29_OnlyDefineChangesDefinitions ==
    [][IsCall
       => IF last'.op = "define"
          THEN /\ definition_map'
                      = [definition_map EXCEPT ![last'.env] = Put(@, last'.s, last'.x)]
               /\ DOMAIN definition_map'[last'.env]
                      = DOMAIN definition_map[last'.env] \cup {last'.s}
          ELSE definition_map' = definition_map]_vars

\* a, defined as b + 1 and looked up, has been defined again, as 1
C29_Witness ==
    /\ last.op = "define"
    /\ last.s = "a"
    /\ last.x = Num(1)
    /\ last.env \in DOMAIN dropped
    /\ "a" \in DOMAIN dropped[last.env]
    /\ dropped[last.env]["a"] = Num(2)
    /\ definition_map[last.env] = ("a" :> Num(1))

\* the cache of Environment e holds for the defined name s another value
\* than the definition of s gives
Stale(e, s) ==
    /\ s \in DOMAIN definition_map[e]
    /\ s \in DOMAIN value_map[e]
    /\ LET r == Environment_evaluate(Store, e, definition_map[e][s], MaxDepth)
       IN  r.ok /\ r.val # value_map[e][s]

(***************************************************************************)
(* C25: when the two threads call the Environment under one lock, no       *)
(* cache entry of a defined name differs from what its definition gives;   *)
(* without the lock a define between the computation and the write of a    *)
(* lookup leaves the value of the earlier definition in the cache.         *)
(***************************************************************************)
C25_SerializedNeverStale ==
    serialized => \A e \in held : \A s \in Names : ~Stale(e, s)

\* without the lock: the lookup has returned and cached the value of a
\* definition that a define has replaced in between
C25_Witness ==
    /\ ~serialized
    /\ last.op = "lookup"
    /\ pending = NoLookup
    /\ Stale(last.env, last.s)
    /\ result = Returned(value_map[last.env][last.s])

====
